---- MODULE Spec2Model ----
(***************************************************************************)
(* http-gpio: the shared pin-handle cache of application_state.rs          *)
(* (State::do_with_handle and its three callers read, write and            *)
(* write_schedule), with the gpio_cdev driver as a nondeterministic        *)
(* environment and std::sync::RwLock / Arc modelled explicitly.            *)
(***************************************************************************)
EXTENDS Integers, Sequences, FiniteSets, TLC

(* ------------------------------ bounds --------------------------------- *)

\* longest schedule posted by a single (sequential) caller
MaxLen == 2

\* longest schedule posted by concurrent callers
MaxLenConcurrent == 1

(* ----------------------------- domains --------------------------------- *)

\* execution contexts (warp worker threads) that call into State
Callers == {"c1", "c2"}

NoCaller == "nobody"

\* u16 arithmetic of schedule.iter().sum::<u16>()
U16 == 65536

\* hold times (milliseconds) a schedule may contain
Durations == {100, 40000}

\* hold times used by concurrent callers
ConcurrentDurations == {100}

\* the blink request used as the running example of the schedule executor
BlinkExample == <<100, 50, 200>>

GpioPathNew(chip, pin) == [chip |-> chip, pin |-> pin]

\* the GpioPath keys requests are made for: same offset on two controllers
GpioPaths == {GpioPathNew("gpiochip0", 17), GpioPathNew("gpiochip1", 17)}

NoPath == GpioPathNew("", 0)

\* identities of the LineHandles the driver has open: a handle is named after
\* the caller whose line.request returned it and the line it was requested on
HandleIds == Callers \X GpioPaths

NoHandle == <<NoCaller, NoPath>>

\* a LineHandle slot nobody references (closed)
Closed == [rc |-> 0, gpio_path |-> NoPath, flags |-> "NONE"]

RECURSIVE SeqsUpTo(_, _)
SeqsUpTo(D, n) ==
  IF n = 0 THEN {<<>>}
  ELSE LET shorter == SeqsUpTo(D, n - 1)
       IN  shorter \cup {Append(s, d) : s \in {x \in shorter : Len(x) = n - 1}, d \in D}

(* ----------------------------- state ----------------------------------- *)

VARIABLES
  pins,       \* State.pins: the HashMap, as a set of [key, handle] entries
  readers,    \* callers holding a read guard of the RwLock
  writer,     \* caller holding the write guard of the RwLock, or NoCaller
  handles,    \* driver side: HandleIds -> [rc, gpio_path, flags]; rc = Arc strong count
  reopened,   \* per GpioPath: outcome of the latest slow-path open ("none", "ok", "failed")
  installed,  \* per GpioPath: the handles of the latest pins.insert calls, newest first
              \* (recorded for the workloads that ask for it)
  ctx,        \* per caller: program counter, arguments, locals and result of its call
  workload    \* the callers that are running, the schedules and logic levels of
              \* their requests and of the lines, and the driver they run on

vars == <<pins, readers, writer, handles, reopened, installed, ctx, workload>>

NoResult == [kind |-> "none", val |-> 0, src |-> "none"]

Ok(v) == [kind |-> "Ok", val |-> v, src |-> "none"]

\* AppError::Gpio(e), tagged with the driver call that produced e
Err(src) == [kind |-> "Err", val |-> 0, src |-> src]

\* the thread unwound from an arithmetic overflow panic
Panicked == [kind |-> "panic", val |-> 0, src |-> "sum"]

\* nothing called before
NoPrev == [op |-> "none", gpio_path |-> NoPath, pre |-> "NONE"]

\* a caller that has not called into State yet
Idle ==
  [pc |-> "idle", op |-> "none", gpio_path |-> NoPath, flags |-> "NONE",
   arg |-> 0, schedule |-> <<>>, total |-> 0,
   handle |-> NoHandle, stage |-> "none", idx |-> 0, value |-> 0, result |-> NoResult,
   attempts |-> 0, opens |-> 0, wlocks |-> 0,
   first |-> "none", second |-> "none",
   writes |-> <<>>, holds |-> <<>>, sets |-> 0, naps |-> 0, partial |-> 0,
   pre |-> "NONE", prev |-> NoPrev]

(* ------------------------ HashMap, Arc, RwLock ------------------------- *)

HashMapGetByPin(m, k) == {e.handle : e \in {x \in m : x.key.pin = k.pin}}

HashMapGet(m, k) == {e.handle : e \in {x \in m : x.key = k}}

HashMapRemoveNothing(m, k) == m

HashMapRemove(m, k) == {e \in m : e.key # k}

HashMapInsertIgnored(m, k, h) == m

HashMapInsert(m, k, h) == {e \in m : e.key # k} \cup {[key |-> k, handle |-> h]}

\* dropping one strong reference of handle h; the LineHandle closes at zero
ArcDrop(hs, h) ==
  IF hs[h].rc <= 1 THEN [hs EXCEPT ![h] = Closed] ELSE [hs EXCEPT ![h].rc = @ - 1]

ArcMove(hs, h) == hs

ArcClone(hs, h) == [hs EXCEPT ![h].rc = @ + 1]

ArcNewAsInput(hs, h, p, f) == [hs EXCEPT ![h] = [rc |-> 1, gpio_path |-> p, flags |-> "INPUT"]]

\* Arc::new(handle): the first strong reference of a freshly requested line
ArcNew(hs, h, p, f) == [hs EXCEPT ![h] = [rc |-> 1, gpio_path |-> p, flags |-> f]]

\* the handles dropped when the entries in old leave the map
RECURSIVE DropEntries(_, _)
DropEntries(hs, old) ==
  IF old = {} THEN hs
  ELSE LET e == CHOOSE x \in old : TRUE
       IN  DropEntries(ArcDrop(hs, e.handle), old \ {e})

\* the LineHandle returned to caller t by line.request on p
FreshHandle(t, p) == <<t, p>>

\* direction the pin is cached with, as seen by a lookup
CachedFlags(p) ==
  LET hs == HashMapGet(pins, p)
  IN  IF hs = {} THEN "NONE" ELSE handles[CHOOSE h \in hs : TRUE].flags

(* ------------------------------ Init ----------------------------------- *)

InitWith(cs, scheds, lv, seq, drv) ==
  /\ pins = {}
  /\ readers = {}
  /\ writer = NoCaller
  /\ handles = [h \in HandleIds |-> Closed]
  /\ reopened = [p \in GpioPaths |-> "none"]
  /\ installed = [p \in GpioPaths |-> <<>>]
  /\ ctx = [t \in Callers |-> Idle]
  /\ workload = [callers |-> cs, schedules |-> scheds, levels |-> lv,
                 sequential |-> seq, driver |-> drv,
                 paths |-> GpioPaths, history |-> FALSE]

\* State::new() shared by concurrent request handlers
Init == InitWith(Callers, SeqsUpTo(ConcurrentDurations, MaxLenConcurrent), {1}, FALSE, "any")

\* as Init, on a driver whose opens succeed and which serves a request
\* exactly when it is made through a handle of the right direction
InitStrict == InitWith(Callers, SeqsUpTo(ConcurrentDurations, MaxLenConcurrent), {1}, FALSE, "strict")

\* State::new() used by one caller making its calls one after the other
InitSeq == InitWith({"c1"}, SeqsUpTo(Durations, MaxLen) \cup {BlinkExample}, 0 .. 1, TRUE, "any")

\* as InitSeq, on a driver whose opens succeed and which serves a request
\* exactly when it is made through a handle of the right direction
InitHeal == InitWith({"c1"}, SeqsUpTo(ConcurrentDurations, MaxLenConcurrent), 0 .. 1, TRUE, "strict")

\* State::new() shared by concurrent request handlers that all address one
\* line, with the insertions into the map recorded
InitRace ==
  /\ pins = {}
  /\ readers = {}
  /\ writer = NoCaller
  /\ handles = [h \in HandleIds |-> Closed]
  /\ reopened = [p \in GpioPaths |-> "none"]
  /\ installed = [p \in GpioPaths |-> <<>>]
  /\ ctx = [t \in Callers |-> Idle]
  /\ workload = [callers |-> Callers,
                 schedules |-> SeqsUpTo(ConcurrentDurations, MaxLenConcurrent),
                 levels |-> {1}, sequential |-> FALSE, driver |-> "any",
                 paths |-> {GpioPathNew("gpiochip0", 17)}, history |-> TRUE]

\* as InitRace, without the record of the insertions
InitFair ==
  /\ pins = {}
  /\ readers = {}
  /\ writer = NoCaller
  /\ handles = [h \in HandleIds |-> Closed]
  /\ reopened = [p \in GpioPaths |-> "none"]
  /\ installed = [p \in GpioPaths |-> <<>>]
  /\ ctx = [t \in Callers |-> Idle]
  /\ workload = [callers |-> Callers,
                 schedules |-> SeqsUpTo(ConcurrentDurations, MaxLenConcurrent),
                 levels |-> {1}, sequential |-> FALSE, driver |-> "any",
                 paths |-> {GpioPathNew("gpiochip0", 17)}, history |-> FALSE]

(* ------------------------ entering an operation ------------------------ *)

\* what a sequential caller can observe around its call: the direction the
\* pin is cached with at the call, and the call it made before
Observed(t, c, p) ==
  IF workload.sequential
  THEN [c EXCEPT !.pre = CachedFlags(p),
                 !.prev = [op |-> ctx[t].op, gpio_path |-> ctx[t].gpio_path,
                           pre |-> ctx[t].pre]]
  ELSE c

\* the arguments of a call, at the entry of do_with_handle
Enter(t, op, p, f, v, s, tot) ==
  Observed(t, [Idle EXCEPT !.pc = "read_lock", !.op = op, !.gpio_path = p, !.flags = f,
                           !.arg = v, !.schedule = s, !.total = tot], p)

CanCall(t) == ctx[t].pc \in {"idle", "done"}

read(t) ==
  /\ CanCall(t)
  /\ \E p \in workload.paths :
       ctx' = [ctx EXCEPT ![t] = Enter(t, "read", p, "INPUT", 0, <<>>, 0)]
  /\ UNCHANGED <<pins, readers, writer, handles, reopened, installed, workload>>

write(t) ==
  /\ CanCall(t)
  /\ \E p \in workload.paths, v \in workload.levels :
       ctx' = [ctx EXCEPT ![t] = Enter(t, "write", p, "OUTPUT", v, <<>>, 0)]
  /\ UNCHANGED <<pins, readers, writer, handles, reopened, installed, workload>>

\* schedule.iter().sum::<u16>(): the accumulator and whether an addition overflowed
RECURSIVE SumU16(_)
SumU16(s) ==
  IF s = <<>> THEN [total |-> 0, overflow |-> FALSE]
  ELSE LET acc == SumU16(SubSeq(s, 1, Len(s) - 1))
           raw == acc.total + s[Len(s)]
       IN  [total |-> raw % U16, overflow |-> acc.overflow \/ raw >= U16]

write_schedule(t) ==
  /\ CanCall(t)
  /\ \E p \in workload.paths, s \in workload.schedules :
       LET sum == SumU16(s) IN
       \/ ctx' = [ctx EXCEPT ![t] = Enter(t, "write_schedule", p, "OUTPUT", 0, s, sum.total)]
       \/ /\ sum.overflow      \* overflow checks compiled in: the sum panics
          /\ ctx' = [ctx EXCEPT ![t] =
                       Observed(t, [Idle EXCEPT !.pc = "done", !.op = "write_schedule",
                                                !.gpio_path = p, !.flags = "OUTPUT",
                                                !.schedule = s, !.result = Panicked], p)]
  /\ UNCHANGED <<pins, readers, writer, handles, reopened, installed, workload>>

(* --------------------------- do_with_handle ---------------------------- *)

StartActionAtOne(c, h, stage) ==
  [c EXCEPT !.pc = "action", !.handle = h, !.stage = stage, !.attempts = @ + 1,
            !.value = 1, !.idx = 0, !.writes = <<>>, !.holds = <<>>]

StartActionResumes(c, h, stage) ==
  [c EXCEPT !.pc = "action", !.handle = h, !.stage = stage, !.attempts = @ + 1]

\* a call of the action closure begins, on the handle found in the map
\* (stage "cached") or on the caller's own arc_handle (stage "fresh")
StartAction(c, h, stage) ==
  [c EXCEPT !.pc = "action", !.handle = h, !.stage = stage, !.attempts = @ + 1,
            !.value = 0, !.idx = 0, !.writes = <<>>, !.holds = <<>>]

\* self.pins.read().unwrap(); pins.get(&gpio_path)
ReadLock(t) ==
  LET c == ctx[t]
      found == HashMapGet(pins, c.gpio_path)
  IN  /\ c.pc = "read_lock"
      /\ writer = NoCaller
      /\ readers' = readers \cup {t}
      /\ ctx' = [ctx EXCEPT ![t] =
                   IF found = {}
                   THEN [c EXCEPT !.pc = "read_unlock", !.first = "absent"]
                   ELSE StartAction(c, CHOOSE h \in found : TRUE, "cached")]
      /\ UNCHANGED <<pins, writer, handles, reopened, installed, workload>>

CachedSuccessReopens(c, v) ==
  [c EXCEPT !.pc = "read_unlock", !.result = Ok(v), !.first = "ok", !.handle = NoHandle]

\* Ok(res) on the pre-existing handle: return Ok(res)
CachedSuccess(c, v) ==
  [c EXCEPT !.pc = "done", !.result = Ok(v), !.first = "ok", !.handle = NoHandle]

CachedFailurePropagates(c) ==
  [c EXCEPT !.pc = "done", !.result = Err("cached_action"), !.first = "err",
            !.handle = NoHandle]

\* Err(e) on the pre-existing handle: e is logged and dropped
CachedFailure(c) ==
  [c EXCEPT !.pc = "read_unlock", !.first = "err", !.handle = NoHandle,
            !.partial = Len(c.writes)]

\* let result = action(&arc_handle)?; Ok(result)
FreshSuccess(c, v) ==
  [c EXCEPT !.pc = "done", !.result = Ok(v), !.second = "ok", !.handle = NoHandle]

FreshFailureRetries(c) ==
  [c EXCEPT !.pc = "write_lock", !.second = "err", !.handle = NoHandle]

\* action(&arc_handle)? returning the error
FreshFailure(c) ==
  [c EXCEPT !.pc = "done", !.result = Err("fresh_action"), !.second = "err",
            !.handle = NoHandle]

\* the action returned Ok(v); c is the caller's context at that point
ActionOk(t, c, v) ==
  IF c.stage = "cached"
  THEN /\ ctx' = [ctx EXCEPT ![t] = CachedSuccess(c, v)]
       /\ readers' = readers \ {t}
       /\ handles' = handles
  ELSE /\ ctx' = [ctx EXCEPT ![t] = FreshSuccess(c, v)]
       /\ readers' = readers
       /\ handles' = ArcDrop(handles, c.handle)

\* the action returned Err(e)
ActionErr(t, c) ==
  IF c.stage = "cached"
  THEN /\ ctx' = [ctx EXCEPT ![t] = CachedFailure(c)]
       /\ readers' = readers
       /\ handles' = handles
  ELSE /\ ctx' = [ctx EXCEPT ![t] = FreshFailure(c)]
       /\ readers' = readers
       /\ handles' = ArcDrop(handles, c.handle)

ReadUnlockKeepsGuard(t) ==
  /\ ctx[t].pc = "read_unlock"
  /\ readers' = readers
  /\ ctx' = [ctx EXCEPT ![t].pc = "write_lock"]
  /\ UNCHANGED <<pins, writer, handles, reopened, installed, workload>>

\* end of the read-locked block: the read guard goes out of scope
ReadUnlock(t) ==
  /\ ctx[t].pc = "read_unlock"
  /\ readers' = readers \ {t}
  /\ ctx' = [ctx EXCEPT ![t].pc = "write_lock"]
  /\ UNCHANGED <<pins, writer, handles, reopened, installed, workload>>

\* self.pins.write().unwrap(); pins.remove(&gpio_path)
WriteLock(t) ==
  LET c == ctx[t]
      old == {e \in pins : e.key = c.gpio_path}
  IN  /\ c.pc = "write_lock"
      /\ writer = NoCaller
      /\ readers = {}
      /\ writer' = t
      /\ pins' = HashMapRemove(pins, c.gpio_path)
      /\ handles' = DropEntries(handles, old)
      /\ ctx' = [ctx EXCEPT ![t] = [c EXCEPT !.pc = "open", !.wlocks = @ + 1]]
      /\ UNCHANGED <<readers, reopened, installed, workload>>

OpenFailureKeepsLock(t) ==
  LET c == ctx[t]
      p == c.gpio_path
  IN  /\ c.pc = "open"
      /\ handles[FreshHandle(t, p)].rc = 0
      /\ \E outcome \in {"Chip::new", "get_line", "request", "ok"} :
           /\ workload.driver = "strict" => outcome = "ok"
           /\ IF outcome = "ok"
              THEN /\ handles' = ArcNew(handles, FreshHandle(t, p), p, c.flags)
                   /\ ctx' = [ctx EXCEPT ![t] =
                                [c EXCEPT !.pc = "insert", !.handle = FreshHandle(t, p),
                                          !.opens = @ + 1]]
                   /\ UNCHANGED <<writer, reopened>>
              ELSE /\ ctx' = [ctx EXCEPT ![t] =
                                [c EXCEPT !.pc = "done", !.result = Err(outcome),
                                          !.opens = @ + 1]]
                   /\ writer' = writer
                   /\ reopened' = [reopened EXCEPT ![p] = "failed"]
                   /\ UNCHANGED handles
      /\ UNCHANGED <<pins, readers, installed, workload>>

\* Chip::new(device_path)?; chip.get_line(pin)?; line.request(flags, 0, "http-gpio")?
Open(t) ==
  LET c == ctx[t]
      p == c.gpio_path
  IN  /\ c.pc = "open"
      /\ handles[FreshHandle(t, p)].rc = 0
      /\ \E outcome \in {"Chip::new", "get_line", "request", "ok"} :
           /\ workload.driver = "strict" => outcome = "ok"
           /\ IF outcome = "ok"
              THEN /\ handles' = ArcNew(handles, FreshHandle(t, p), p, c.flags)
                   /\ ctx' = [ctx EXCEPT ![t] =
                                [c EXCEPT !.pc = "insert", !.handle = FreshHandle(t, p),
                                          !.opens = @ + 1]]
                   /\ UNCHANGED <<writer, reopened>>
              ELSE /\ ctx' = [ctx EXCEPT ![t] =
                                [c EXCEPT !.pc = "done", !.result = Err(outcome),
                                          !.opens = @ + 1]]
                   /\ writer' = NoCaller
                   /\ reopened' = [reopened EXCEPT ![p] = "failed"]
                   /\ UNCHANGED handles
      /\ UNCHANGED <<pins, readers, installed, workload>>

\* the insertions remembered per key: h and the one before it
Latest(h, before) ==
  IF ~workload.history THEN before
  ELSE IF before = <<>> THEN <<h>> ELSE <<h, before[1]>>

InsertKeepsLock(t) ==
  LET c == ctx[t]
      p == c.gpio_path
      old == {e \in pins : e.key = p}
  IN  /\ c.pc = "insert"
      /\ pins' = HashMapInsert(pins, p, c.handle)
      /\ handles' = DropEntries(ArcClone(handles, c.handle), old)
      /\ writer' = writer
      /\ reopened' = [reopened EXCEPT ![p] = "ok"]
      /\ installed' = [installed EXCEPT ![p] = Latest(c.handle, @)]
      /\ ctx' = [ctx EXCEPT ![t] = StartAction(c, c.handle, "fresh")]
      /\ UNCHANGED <<readers, workload>>

\* pins.insert(gpio_path, Arc::clone(&arc_handle)); drop(pins)
Insert(t) ==
  LET c == ctx[t]
      p == c.gpio_path
      old == {e \in pins : e.key = p}
  IN  /\ c.pc = "insert"
      /\ pins' = HashMapInsert(pins, p, c.handle)
      /\ handles' = DropEntries(ArcClone(handles, c.handle), old)
      /\ writer' = NoCaller
      /\ reopened' = [reopened EXCEPT ![p] = "ok"]
      /\ installed' = [installed EXCEPT ![p] = Latest(c.handle, @)]
      /\ ctx' = [ctx EXCEPT ![t] = StartAction(c, c.handle, "fresh")]
      /\ UNCHANGED <<readers, workload>>

(* ---------------------------- the actions ------------------------------ *)

BitXor0(v) == v

\* u8::bitxor(value, 1)
BitXor1(v) == IF v % 2 = 0 THEN v + 1 ELSE v - 1

\* the answers the driver can give to a request of direction dir made through
\* handle h: anything, or (strict driver) success exactly on a matching handle
DriverAnswers(h, dir) ==
  IF workload.driver = "strict" THEN {handles[h].flags = dir} ELSE BOOLEAN

\* |line| line.get_value()
GetValue(t) ==
  LET c == ctx[t]
      h == c.handle
  IN  /\ c.pc = "action"
      /\ c.op = "read"
      /\ \E ok \in DriverAnswers(h, "INPUT") :
           IF ok THEN \E v \in workload.levels : ActionOk(t, c, v) ELSE ActionErr(t, c)
      /\ UNCHANGED <<pins, writer, reopened, installed, workload>>

\* |line| line.set_value(value)
SetValue(t) ==
  LET c == ctx[t]
      h == c.handle
  IN  /\ c.pc = "action"
      /\ c.op = "write"
      /\ \E ok \in DriverAnswers(h, "OUTPUT") :
           IF ok
           THEN ActionOk(t, [c EXCEPT !.sets = @ + 1, !.writes = Append(@, c.arg)], 0)
           ELSE ActionErr(t, c)
      /\ UNCHANGED <<pins, writer, reopened, installed, workload>>

\* for &time in &schedule { line.set_value(value)?; value = value.bitxor(1); ...
ScheduleSet(t) ==
  LET c == ctx[t]
      h == c.handle
  IN  /\ c.pc = "action"
      /\ c.op = "write_schedule"
      /\ c.idx < Len(c.schedule)
      /\ \E ok \in DriverAnswers(h, "OUTPUT") :
           IF ok
           THEN /\ ctx' = [ctx EXCEPT ![t] =
                             [c EXCEPT !.pc = "sleep", !.sets = @ + 1,
                                       !.writes = Append(@, c.value),
                                       !.value = BitXor1(@)]]
                /\ UNCHANGED <<readers, handles>>
           ELSE ActionErr(t, c)
      /\ UNCHANGED <<pins, writer, reopened, installed, workload>>

\* ... std::thread::sleep(Duration::from_millis(time.into())) }
ScheduleSleep(t) ==
  LET c == ctx[t] IN
  /\ c.pc = "sleep"
  /\ ctx' = [ctx EXCEPT ![t] =
               [c EXCEPT !.pc = "action", !.idx = @ + 1, !.naps = @ + 1,
                         !.holds = Append(@, c.schedule[c.idx + 1])]]
  /\ UNCHANGED <<pins, readers, writer, handles, reopened, installed, workload>>

\* the loop is over: Ok(value)
ScheduleEnd(t) ==
  LET c == ctx[t] IN
  /\ c.pc = "action"
  /\ c.op = "write_schedule"
  /\ c.idx = Len(c.schedule)
  /\ ActionOk(t, c, c.value)
  /\ UNCHANGED <<pins, writer, reopened, installed, workload>>

(* ------------------------------ Next ----------------------------------- *)

Next ==
  \/ \E t \in workload.callers : read(t)
  \/ \E t \in workload.callers : write(t)
  \/ \E t \in workload.callers : write_schedule(t)
  \/ \E t \in workload.callers : ReadLock(t)
  \/ \E t \in workload.callers : ReadUnlock(t)
  \/ \E t \in workload.callers : WriteLock(t)
  \/ \E t \in workload.callers : Open(t)
  \/ \E t \in workload.callers : Insert(t)
  \/ \E t \in workload.callers : GetValue(t)
  \/ \E t \in workload.callers : SetValue(t)
  \/ \E t \in workload.callers : ScheduleSet(t)
  \/ \E t \in workload.callers : ScheduleSleep(t)
  \/ \E t \in workload.callers : ScheduleEnd(t)

Spec == Init /\ [][Next]_vars

SpecSeq == InitSeq /\ [][Next]_vars

SpecHeal == InitHeal /\ [][Next]_vars

SpecStrict == InitStrict /\ [][Next]_vars

SpecRace == InitRace /\ [][Next]_vars

\* a step of caller t inside a call other than the acquisition of a lock
Running(t) ==
  \/ ReadUnlock(t)
  \/ Open(t)
  \/ Insert(t)
  \/ GetValue(t)
  \/ SetValue(t)
  \/ ScheduleSet(t)
  \/ ScheduleSleep(t)
  \/ ScheduleEnd(t)

\* threads are scheduled fairly, driver calls and sleeps return, and the
\* RwLock serves every waiter that can be served again and again
Fairness ==
  \A t \in Callers :
    /\ WF_vars(Running(t))
    /\ SF_vars(ReadLock(t))
    /\ SF_vars(WriteLock(t))

SpecFair == InitFair /\ [][Next]_vars /\ Fairness

(* ------------------------------ claims --------------------------------- *)

OpenSteps == {"Chip::new", "get_line", "request"}

InAction(c) == c.pc \in {"action", "sleep"}

Entries(p) == {e \in pins : e.key = p}

\* C1: a call invokes its action at most twice and opens the device at most
\* once; when the action fails on the cached handle and again on the freshly
\* opened one, the call returns an error after exactly two invocations.
AtMostOneRetry ==
  \A t \in Callers :
    LET c == ctx[t] IN
    /\ c.attempts <= 2
    /\ c.opens <= 1
    /\ c.wlocks <= 1
    /\ (c.first = "err" /\ c.second = "err")
         => (c.pc = "done" /\ c.result.kind = "Err" /\ c.attempts = 2)

AtMostOneRetryWitness ==
  \E t \in Callers :
    /\ ctx[t].pc = "done"
    /\ ctx[t].first = "err"
    /\ ctx[t].second = "err"
    /\ ctx[t].attempts = 2
    /\ ctx[t].result = Err("fresh_action")

\* C2: an error returned by a call comes from one of the three open steps or
\* from the action on the freshly opened handle, never from the action on the
\* cached handle; a failure of the action on the fresh handle is the call's error.
FirstFailureNeverSurfaces ==
  \A t \in Callers :
    LET c == ctx[t] IN
    /\ c.result.kind = "Err"
         => /\ c.pc = "done"
            /\ c.wlocks = 1
            /\ \/ c.result.src \in OpenSteps /\ c.second = "none"
               \/ c.result.src = "fresh_action" /\ c.second = "err" /\ c.stage = "fresh"
    /\ c.second = "err" => c.result = Err("fresh_action")
    /\ (c.first = "err" /\ c.pc # "done") => c.result = NoResult

FirstFailureNeverSurfacesWitness ==
  \E t \in Callers :
    /\ ctx[t].pc = "done"
    /\ ctx[t].first = "err"
    /\ ctx[t].second = "ok"
    /\ ctx[t].result.kind = "Ok"

\* C3: a call whose action succeeds on the cached handle returns at once:
\* it never takes the write lock, opens nothing, and none of its steps
\* changes the map or the reference counts of the handles.
IdempotentFastPath ==
  /\ [](\A t \in Callers :
          ctx[t].first = "ok"
            => /\ ctx[t].pc = "done"
               /\ ctx[t].result.kind = "Ok"
               /\ ctx[t].opens = 0
               /\ ctx[t].wlocks = 0)
  /\ [][\A t \in Callers :
          (ctx[t].stage = "cached" /\ InAction(ctx[t]) /\ ctx'[t] # ctx[t])
            => (pins' = pins /\ handles' = handles /\ writer' = writer /\ writer = NoCaller)]_vars

IdempotentFastPathWitness ==
  \E t \in Callers :
    /\ ctx[t].pc = "done"
    /\ ctx[t].op \in {"read", "write"}
    /\ ctx[t].first = "ok"
    /\ CachedFlags(ctx[t].gpio_path) = ctx[t].flags

\* C4: one caller, on a driver whose opens succeed and which rejects exactly
\* the requests made through a handle of the wrong direction: a write on a pin
\* cached as input succeeds with exactly one open and leaves the pin cached as
\* output; a read on a pin cached as output succeeds with exactly one open and
\* leaves the pin cached as input.
SelfHealing ==
  \A t \in workload.callers :
    LET c == ctx[t] IN
    /\ (c.pc = "done" /\ c.op = "write" /\ c.pre = "INPUT")
         => /\ c.result.kind = "Ok"
            /\ c.opens = 1
            /\ c.attempts = 2
            /\ CachedFlags(c.gpio_path) = "OUTPUT"
    /\ (c.pc = "done" /\ c.op = "read" /\ c.pre = "OUTPUT")
         => /\ c.result.kind = "Ok"
            /\ c.opens = 1
            /\ c.attempts = 2
            /\ CachedFlags(c.gpio_path) = "INPUT"

\* the read that follows the healing write on the same pin
SelfHealingWitness ==
  \E t \in workload.callers :
    LET c == ctx[t] IN
    /\ c.pc = "done" /\ c.op = "read" /\ c.pre = "OUTPUT"
    /\ c.prev = [op |-> "write", gpio_path |-> c.gpio_path, pre |-> "INPUT"]
    /\ c.opens = 1
    /\ CachedFlags(c.gpio_path) = "INPUT"

Quiet == \A t \in Callers : ctx[t].pc \in {"idle", "done"}

\* C5 (as claimed): once the operations on a key have returned, the cache
\* holds exactly one entry for it, also when some of them failed.
ExactlyOneEntry ==
  \A p \in GpioPaths :
    /\ Cardinality(Entries(p)) <= 1
    /\ (Quiet /\ \E t \in Callers : ctx[t].gpio_path = p /\ ctx[t].result.kind \in {"Ok", "Err"})
         => Cardinality(Entries(p)) = 1

\* C5 (amended): the cache never holds more than one entry for a key; outside
\* the exclusive section of a call on that key it holds exactly one entry when
\* the latest open of the key succeeded and none when it failed or never ran.
NoDuplicateEntries ==
  \A p \in GpioPaths :
    /\ Cardinality(Entries(p)) <= 1
    /\ (\A t \in Callers : ~(ctx[t].pc \in {"open", "insert"} /\ ctx[t].gpio_path = p))
         => (Cardinality(Entries(p)) = 1 <=> reopened[p] = "ok")

NoDuplicateEntriesWitness ==
  \E p \in GpioPaths :
    /\ Quiet
    /\ \A t \in Callers : ctx[t].gpio_path = p
    /\ \E t \in Callers : ctx[t].result.kind = "Ok" /\ ctx[t].wlocks = 1
    /\ \E t \in Callers : ctx[t].result.kind = "Err" /\ ctx[t].result.src \in OpenSteps
    /\ reopened[p] = "failed"
    /\ Entries(p) = {}

\* C6 (as claimed): the value write_schedule returns is the value of the last
\* set_value it performed; for <<100, 50, 200>> the line is set to 0, 1, 0, 1
\* and the call returns 1.
ReturnsFinalValueWritten ==
  \A t \in workload.callers :
    LET c == ctx[t] IN
    (c.pc = "done" /\ c.op = "write_schedule" /\ c.result.kind = "Ok")
      => /\ c.writes # <<>> => c.result.val = c.writes[Len(c.writes)]
         /\ c.schedule = BlinkExample => (c.writes = <<0, 1, 0, 1>> /\ c.result.val = 1)

RECURSIVE Sum(_)
Sum(s) == IF s = <<>> THEN 0 ELSE s[1] + Sum(Tail(s))

\* the values 0, 1, 0, ... of the first n writes
Alternating(n) == [i \in 1 .. n |-> (i - 1) % 2]

\* C7: in a run of the schedule action the i-th write (from 0) sets i mod 2 and
\* is followed by one sleep of durations[i] before the next write; a run that
\* succeeds over n durations has slept each duration once, in order, and
\* returns n mod 2.
ScheduleOrder ==
  \A t \in workload.callers :
    LET c == ctx[t]
        n == Len(c.schedule)
    IN  c.op = "write_schedule" =>
          /\ c.writes = Alternating(Len(c.writes))
          /\ c.holds = SubSeq(c.schedule, 1, Len(c.holds))
          /\ c.pc = "sleep" => Len(c.writes) = Len(c.holds) + 1
          /\ c.pc = "action" => (Len(c.writes) = Len(c.holds) /\ c.idx = Len(c.holds))
          /\ (c.pc = "done" /\ c.result.kind = "Ok")
               => /\ c.writes = Alternating(n)
                  /\ c.holds = c.schedule
                  /\ Sum(c.holds) = Sum(c.schedule)
                  /\ c.result.val = n % 2

ScheduleOrderWitness ==
  \E t \in workload.callers :
    /\ ctx[t].pc = "done"
    /\ ctx[t].op = "write_schedule"
    /\ ctx[t].schedule = BlinkExample
    /\ ctx[t].result = Ok(1)
    /\ ctx[t].writes = <<0, 1, 0>>
    /\ ctx[t].holds = <<100, 50, 200>>

\* C8: write_schedule with an empty schedule performs no set_value and no
\* sleep and returns 0; on a pin that is not cached it opens the line once,
\* for output, and installs the handle, or returns the error of the open.
EmptySchedule ==
  \A t \in workload.callers :
    LET c == ctx[t] IN
    (c.pc = "done" /\ c.op = "write_schedule" /\ c.schedule = <<>>)
      => /\ c.sets = 0
         /\ c.naps = 0
         /\ c.result.kind = "Ok" => c.result.val = 0
         /\ c.pre = "NONE"
              => /\ c.opens = 1
                 /\ \/ /\ c.result = Ok(0)
                       /\ CachedFlags(c.gpio_path) = "OUTPUT"
                       /\ reopened[c.gpio_path] = "ok"
                    \/ /\ c.result.kind = "Err"
                       /\ c.result.src \in OpenSteps
                       /\ reopened[c.gpio_path] = "failed"

EmptyScheduleWitness ==
  \E t \in workload.callers :
    /\ ctx[t].pc = "done"
    /\ ctx[t].op = "write_schedule"
    /\ ctx[t].schedule = <<>>
    /\ ctx[t].pre = "NONE"
    /\ ctx[t].opens = 1
    /\ ctx[t].result = Ok(0)
    /\ CachedFlags(ctx[t].gpio_path) = "OUTPUT"

\* whether caller b, about to take the lock, is kept waiting by caller a
Blocks(a, b) ==
  \/ ctx[b].pc = "read_lock" /\ writer = a
  \/ ctx[b].pc = "write_lock" /\ (writer = a \/ a \in readers)

\* C9 (as claimed): a write_schedule in flight on one pin (after its first
\* write, until it returns) never keeps a read on another pin waiting for
\* the lock of the cache.
DistinctPinsNeverBlock ==
  \A a \in Callers, b \in Callers :
    ( /\ ctx[a].op = "write_schedule"
      /\ InAction(ctx[a])
      /\ ctx[a].writes # <<>>
      /\ ctx[b].op = "read"
      /\ ctx[b].gpio_path # ctx[a].gpio_path )
      => ~Blocks(a, b)

\* C10: a caller running its action on the handle it opened itself runs it on
\* an open handle of its own pin and direction that no other caller opened,
\* whatever happens to the cache entry meanwhile; if that action succeeds the
\* call returns success.
RacingReopen ==
  \A t \in Callers :
    LET c == ctx[t] IN
    /\ (c.stage = "fresh" /\ InAction(c))
         => /\ handles[c.handle].rc >= 1
            /\ handles[c.handle].gpio_path = c.gpio_path
            /\ handles[c.handle].flags = c.flags
            /\ \A u \in Callers \ {t} :
                 (ctx[u].stage = "fresh" /\ InAction(ctx[u])) => ctx[u].handle # c.handle
    /\ c.second = "ok" => (c.pc = "done" /\ c.result.kind = "Ok" /\ c.opens = 1)

\* two callers in their retried action on the same pin, one of them on a
\* handle that has already left the cache
RacingReopenWitness ==
  \E a \in Callers, b \in Callers :
    /\ a # b
    /\ ctx[a].gpio_path = ctx[b].gpio_path
    /\ ctx[a].stage = "fresh" /\ InAction(ctx[a])
    /\ ctx[b].stage = "fresh" /\ InAction(ctx[b])
    /\ ctx[a].handle # ctx[b].handle
    /\ ctx[a].handle \notin HashMapGet(pins, ctx[a].gpio_path)
    /\ ctx[b].handle \in HashMapGet(pins, ctx[b].gpio_path)

\* C11: an entry of the cache is always the handle of the latest insertion
\* made for its pin; that handle stays the pin's entry until a later call
\* enters its exclusive section on the pin, and it is the handle every
\* fast-path action on the pin runs against.
LastWriteWins ==
  /\ \A p \in GpioPaths :
       /\ HashMapGet(pins, p) # {}
            => (installed[p] # <<>> /\ HashMapGet(pins, p) = {installed[p][1]})
       /\ ( /\ installed[p] # <<>>
            /\ reopened[p] = "ok"
            /\ \A t \in Callers : ~(ctx[t].pc \in {"open", "insert"} /\ ctx[t].gpio_path = p) )
            => HashMapGet(pins, p) = {installed[p][1]}
  /\ \A t \in Callers :
       (ctx[t].stage = "cached" /\ InAction(ctx[t]))
         => /\ installed[ctx[t].gpio_path] # <<>>
            /\ ctx[t].handle = installed[ctx[t].gpio_path][1]

\* both callers have inserted a handle for the pin, a before b; b is still
\* in the call that inserted last and a, in a new call, runs on b's handle
LastWriteWinsWitness ==
  \E a \in Callers, b \in Callers, p \in GpioPaths :
    /\ a # b
    /\ ctx[a].gpio_path = p
    /\ ctx[b].gpio_path = p
    /\ installed[p] = <<FreshHandle(b, p), FreshHandle(a, p)>>
    /\ ctx[b].stage = "fresh" /\ InAction(ctx[b])
    /\ ctx[a].stage = "cached" /\ InAction(ctx[a])
    /\ ctx[a].handle = FreshHandle(b, p)

\* C12 (as claimed): a caller suspended between two toggles of a schedule
\* holds neither the write guard nor a read guard of the cache, and runs the
\* schedule on the handle it inserted itself.
SuspendsOutsideLocks ==
  \A t \in Callers :
    ctx[t].pc = "sleep"
      => /\ writer # t
         /\ t \notin readers
         /\ ctx[t].stage = "fresh"

\* C13: the write guard is held only from the removal of the stale entry to
\* the insertion (while no read guard exists), never by a caller running its
\* action; the map changes only in the step that takes the write guard
\* (pins.remove) and in the inserting step of the caller that holds it.
ExclusiveOnlyForReopen ==
  /\ [](\A t \in Callers :
          /\ writer = t => (ctx[t].pc \in {"open", "insert"} /\ readers = {})
          /\ InAction(ctx[t]) => writer # t
          /\ ctx[t].pc \in {"open", "insert"} => writer = t)
  /\ [][pins' # pins =>
          \E t \in Callers :
            /\ readers = {}
            /\ \/ /\ ctx[t].pc = "write_lock"
                  /\ writer = NoCaller
                  /\ writer' = t
                  /\ pins' = HashMapRemove(pins, ctx[t].gpio_path)
               \/ /\ ctx[t].pc = "insert"
                  /\ writer = t
                  /\ writer' = NoCaller
                  /\ InAction(ctx'[t])
                  /\ pins' = HashMapInsert(pins, ctx[t].gpio_path, ctx[t].handle)]_vars

\* a caller is inside the schedule it runs on the handle it inserted while
\* the other caller holds the write guard
ExclusiveOnlyForReopenWitness ==
  \E t \in Callers, u \in Callers :
    /\ ctx[t].stage = "fresh"
    /\ ctx[t].pc = "sleep"
    /\ ctx[t].opens = 1
    /\ u # t
    /\ writer = u
    /\ ctx[u].pc = "open"

\* C14 (as claimed): in sequential use a successful write or write_schedule
\* ran its action on a handle opened for output and leaves the pin cached for
\* output, and a successful read ran its action on a handle opened for input
\* (a call that succeeded at its first attempt ran on the handle the pin was
\* cached with when the call began).
HandleDirection ==
  \A t \in workload.callers :
    LET c == ctx[t] IN
    (workload.sequential /\ c.pc = "done" /\ c.result.kind = "Ok")
      => /\ c.first = "ok" => c.pre = c.flags
         /\ c.op \in {"write", "write_schedule"} => CachedFlags(c.gpio_path) = "OUTPUT"

\* C15: a call whose open failed has returned the error of the failing step
\* after one open and without running the action again, and holds no lock;
\* the failing step leaves the exclusive section with no entry for the pin
\* in the cache and no handle created.
OpenFailureIsFatal ==
  /\ [](\A t \in Callers :
          LET c == ctx[t] IN
          (c.result.kind = "Err" /\ c.result.src \in OpenSteps)
            => /\ c.pc = "done"
               /\ c.opens = 1
               /\ c.wlocks = 1
               /\ c.second = "none"
               /\ c.attempts = (IF c.first = "err" THEN 1 ELSE 0)
               /\ writer # t
               /\ t \notin readers)
  /\ [][\A t \in Callers :
          (ctx[t].pc = "open" /\ ctx'[t].pc # "insert" /\ ctx'[t] # ctx[t])
            => /\ ctx'[t].pc = "done"
               /\ ctx'[t].result.kind = "Err"
               /\ ctx'[t].result.src \in OpenSteps
               /\ writer = t
               /\ writer' = NoCaller
               /\ Entries(ctx[t].gpio_path)' = {}
               /\ pins' = pins
               /\ handles' = handles]_vars

\* the call found the pin cached, its action failed on that handle, and the
\* request of the line then failed: the old handle is closed, the pin is absent
OpenFailureIsFatalWitness ==
  \E t \in Callers :
    /\ ctx[t].pc = "done"
    /\ ctx[t].first = "err"
    /\ ctx[t].result = Err("request")
    /\ ctx[t].attempts = 1
    /\ Entries(ctx[t].gpio_path) = {}
    /\ \A h \in HandleIds : handles[h].rc = 0
    /\ writer = NoCaller

\* C16 (as claimed): when a caller is about to request a line in its
\* exclusive section, no handle on that line is open, neither as a cache
\* entry nor in the hands of another caller's action.
SerializedOpens ==
  \A t \in Callers :
    ctx[t].pc = "open"
      => \A h \in HandleIds :
           handles[h].rc >= 1 => handles[h].gpio_path # ctx[t].gpio_path

\* caller t is inside a call
InFlight(t) == ctx[t].pc \notin {"idle", "done"}

\* caller t is at a lock acquisition that cannot be served now
Waiting(t) ==
  \/ ctx[t].pc = "read_lock" /\ writer # NoCaller
  \/ ctx[t].pc = "write_lock" /\ (writer # NoCaller \/ readers # {})

\* C17: under fair scheduling every call returns a result or an error; a
\* caller asking for the write guard holds no read guard, and the callers
\* inside a call are never all waiting for the lock.
Termination ==
  /\ [](\A t \in Callers : ctx[t].pc = "write_lock" => t \notin readers)
  /\ []((\E t \in Callers : InFlight(t)) => (\E t \in Callers : InFlight(t) /\ ~Waiting(t)))
  /\ \A t \in Callers :
       InFlight(t) ~> (ctx[t].pc = "done" /\ ctx[t].result.kind \in {"Ok", "Err"})

\* a caller waits for the write guard while the other sleeps inside a
\* schedule under its read guard
TerminationWitness ==
  \E t \in Callers, u \in Callers :
    /\ ctx[t].pc = "write_lock"
    /\ Waiting(t)
    /\ u \in readers
    /\ ctx[u].pc = "sleep"

\* C18 (as claimed): the total duration write_schedule computes is the sum of
\* the durations of its schedule, and computing it never aborts the call.
TotalIsSum ==
  \A t \in workload.callers :
    ctx[t].op = "write_schedule"
      => /\ ctx[t].result.kind # "panic"
         /\ ctx[t].total = Sum(ctx[t].schedule)

\* C19: when the schedule failed on the cached handle after k writes, the
\* retry on the fresh handle starts again at value 0 and the first duration:
\* during the retry the call has made k plus the retry's own writes and
\* sleeps, and a successful call over n durations has made k + n of each and
\* returns n mod 2.
ScheduleRestarts ==
  \A t \in workload.callers :
    LET c == ctx[t]
        n == Len(c.schedule)
        k == c.partial
    IN  (c.op = "write_schedule" /\ c.first = "err") =>
          /\ k < n
          /\ c.stage = "cached" => (c.sets = k /\ c.naps = k)
          /\ c.stage = "fresh" =>
               /\ c.sets = k + Len(c.writes)
               /\ c.naps = k + Len(c.holds)
               /\ c.writes = Alternating(Len(c.writes))
               /\ c.holds = SubSeq(c.schedule, 1, Len(c.holds))
               /\ c.pc = "action" => (c.idx = Len(c.writes) /\ c.value = c.idx % 2)
          /\ (c.pc = "done" /\ c.result.kind = "Ok")
               => /\ c.sets = k + n
                  /\ c.naps = k + n
                  /\ c.holds = c.schedule
                  /\ c.result.val = n % 2

\* the blink example failed at its third write on the cached handle and was
\* run again in full on the reopened one
ScheduleRestartsWitness ==
  \E t \in workload.callers :
    /\ ctx[t].pc = "done"
    /\ ctx[t].op = "write_schedule"
    /\ ctx[t].schedule = BlinkExample
    /\ ctx[t].first = "err"
    /\ ctx[t].partial = 2
    /\ ctx[t].sets = 5
    /\ ctx[t].naps = 5
    /\ ctx[t].result = Ok(1)

\* C20: a call on pin p runs its action on a handle of p only, and no step of
\* the call changes the cache entry of another pin q or opens, closes or
\* changes the reference count of a handle of q.
PerPinIsolation ==
  /\ [](\A t \in Callers :
          InAction(ctx[t])
            => /\ ctx[t].handle[2] = ctx[t].gpio_path
               /\ handles[ctx[t].handle].gpio_path = ctx[t].gpio_path)
  /\ [][\A t \in Callers :
          ctx'[t] # ctx[t]
            => \A q \in GpioPaths \ {ctx'[t].gpio_path} :
                 /\ Entries(q)' = Entries(q)
                 /\ \A h \in HandleIds : h[2] = q => handles'[h] = handles[h]]_vars

\* a call that found its pin cached, failed on it and removed the entry is
\* about to insert the reopened handle, while the other pin stays cached with
\* the handle the other caller is running a schedule on
PerPinIsolationWitness ==
  \E t \in Callers, u \in Callers :
    /\ ctx[t].pc = "insert"
    /\ ctx[t].first = "err"
    /\ ctx[u].pc = "sleep"
    /\ ctx[u].stage = "fresh"
    /\ ctx[u].gpio_path # ctx[t].gpio_path
    /\ HashMapGet(pins, ctx[u].gpio_path) = {ctx[u].handle}
    /\ HashMapGet(pins, ctx[t].gpio_path) = {}

TypeOK ==
  /\ readers \subseteq Callers
  /\ writer \in Callers \cup {NoCaller}
  /\ \A t \in Callers : ctx[t].pc \in {"idle", "done", "read_lock", "read_unlock", "write_lock", "open", "insert", "action", "sleep"}

====
